---- MODULE Spec2Model ----
(***************************************************************************)
(* Image source resolution of LibTurner: the ImageCache singleton of       *)
(* src/utils/imageCache.js (its second, current definition), the URL       *)
(* helpers it calls (urlFixer, reliableImageSources, googleImageSearch)    *)
(* and the browser events that drive it (Image load / error, timers).      *)
(*                                                                         *)
(* Strings are modelled by what the code looks at:                         *)
(*   - an ISBN is a sequence of character codes: 0..9 the digits, 10 'X',  *)
(*     11 '-', 12 'N' and 13 'a' (the letters of a stringified NaN);       *)
(*   - a URL is a record [scheme, host, path, isbn, ext]: path names the   *)
(*     template, isbn is the text interpolated into it, ext is the file    *)
(*     extension that ends the path ("" when there is none). The empty     *)
(*     string '' is NoUrl.                                                 *)
(***************************************************************************)
EXTENDS Integers, Sequences, FiniteSets, TLC

\* ---------------------------------------------------------------- strings

CharX == 10
CharDash == 11
CharN == 12
CharA == 13

NoIsbn == << >>

NaN == 0 - 1

\* s.slice(a, b) on a sequence, 0-based, end exclusive, both already clipped
Slice(s, a, b) == IF b <= a THEN << >> ELSE SubSeq(s, a + 1, b)

RECURSIVE FilterSeq(_, _)
FilterSeq(s, keep) ==
  IF s = << >> THEN << >>
  ELSE LET rest == FilterSeq(Tail(s), keep)
       IN IF Head(s) \in keep THEN << Head(s) >> \o rest ELSE rest

\* isbn.replace(/[-\s]/g, '')
StripDashes(isbn) == FilterSeq(isbn, 0 .. 13 \ {CharDash})

\* parseInt of one character: a digit, or NaN
ParseInt(c) == IF c \in 0 .. 9 THEN c ELSE NaN

StartsWith978(s) == Len(s) >= 3 /\ s[1] = 9 /\ s[2] = 7 /\ s[3] = 8

\* the text of a number appended to a string: a digit, "10", or "NaN"
NumText(n) ==
  IF n = NaN THEN << CharN, CharA, CharN >>
  ELSE IF n >= 10 THEN << n \div 10, n % 10 >> ELSE << n >>

\* sum over i of parseInt(s[i]) * w(i), NaN once any term is NaN
RECURSIVE WeightedSum(_, _, _)
WeightedSum(s, w, i) ==
  IF i > Len(s) THEN 0
  ELSE LET d == ParseInt(s[i])
           rest == WeightedSum(s, w, i + 1)
       IN IF d = NaN \/ rest = NaN THEN NaN ELSE d * w[i] + rest

Weights13 == [i \in 1 .. 12 |-> IF i % 2 = 1 THEN 1 ELSE 3]
Weights10 == [i \in 1 .. 9 |-> 11 - i]

\* ------------------------------------------------------------- urlFixer.js

\* URLFixer.cleanISBN: keep digits and X, accept 10 or 13 characters
cleanISBN(isbn) ==
  IF isbn = NoIsbn THEN NoIsbn
  ELSE LET cleaned == FilterSeq(isbn, 0 .. 10)
       IN IF Len(cleaned) = 10 \/ Len(cleaned) = 13 THEN cleaned ELSE NoIsbn

\* Check10 that writes the check value 10 as the digits 1 and 0: the variant
\* C19 is checked against
Check10Decimal(isbn9) ==
  LET sum == WeightedSum(isbn9, Weights10, 1)
  IN IF sum = NaN THEN NumText(NaN)
     ELSE NumText((11 - (sum % 11)) % 11)

\* the check character of an ISBN-10 from its first nine characters
Check10(isbn9) ==
  LET sum == WeightedSum(isbn9, Weights10, 1)
  IN IF sum = NaN THEN NumText(NaN)
     ELSE LET remainder == sum % 11
          IN IF remainder = 0 THEN << 0 >>
             ELSE IF remainder = 1 THEN << CharX >>
             ELSE NumText(11 - remainder)

\* URLFixer.convertToISBN10
FixerConvertToISBN10(isbn) ==
  IF isbn = NoIsbn \/ Len(isbn) # 13 \/ ~StartsWith978(isbn) THEN NoIsbn
  ELSE Slice(isbn, 3, 12) \o Check10(Slice(isbn, 3, 12))

\* ---------------------------------------------------- reliableImageSources

\* convertToISBN13 that takes the nine characters after the first of an
\* ISBN-10: the variant C18 is checked against
convertToISBN13Shifted(isbn) ==
  IF isbn = NoIsbn THEN NoIsbn
  ELSE LET cleaned == StripDashes(isbn)
       IN IF Len(cleaned) = 13 THEN cleaned
          ELSE IF Len(cleaned) = 10
          THEN LET prefix == << 9, 7, 8 >> \o Slice(cleaned, 1, 10)
                   sum == WeightedSum(prefix, Weights13, 1)
               IN prefix \o NumText(IF sum = NaN THEN NaN
                                     ELSE (10 - (sum % 10)) % 10)
          ELSE NoIsbn

\* ReliableImageSources.convertToISBN13
convertToISBN13(isbn) ==
  IF isbn = NoIsbn THEN NoIsbn
  ELSE LET cleaned == StripDashes(isbn)
       IN IF Len(cleaned) = 13 THEN cleaned
          ELSE IF Len(cleaned) = 10
          THEN LET prefix == << 9, 7, 8 >> \o Slice(cleaned, 0, 9)
                   sum == WeightedSum(prefix, Weights13, 1)
               IN prefix \o NumText(IF sum = NaN THEN NaN
                                     ELSE (10 - (sum % 10)) % 10)
          ELSE NoIsbn

\* ReliableImageSources.convertToISBN10
convertToISBN10(isbn) ==
  IF isbn = NoIsbn THEN NoIsbn
  ELSE LET cleaned == StripDashes(isbn)
       IN IF Len(cleaned) = 10 THEN cleaned
          ELSE IF Len(cleaned) = 13 /\ StartsWith978(cleaned)
          THEN Slice(cleaned, 3, 12) \o Check10(Slice(cleaned, 3, 12))
          ELSE NoIsbn

\* -------------------------------------------------------------------- URLs

NoUrl == [scheme |-> "", host |-> "", path |-> "", isbn |-> NoIsbn, ext |-> ""]

Url(scheme, host, path, isbn, ext) ==
  [scheme |-> scheme, host |-> host, path |-> path, isbn |-> isbn, ext |-> ext]

Https(host, path, isbn, ext) == Url("https", host, path, isbn, ext)

\* The domain names the code searches for with String.includes, per host of
\* the model: HostParts[h] holds the names that are substrings of a URL on h.
HostParts ==
  [h \in {"covers.openlibrary.org"} |-> {"covers.openlibrary.org", "openlibrary.org"}] @@
  [h \in {"openlibrary.org"} |-> {"openlibrary.org"}] @@
  [h \in {"archive.org"} |-> {"archive.org"}] @@
  [h \in {"bookcover.longitood.com"} |-> {"bookcover.longitood.com"}] @@
  [h \in {"syndetics.com"} |-> {"syndetics.com"}] @@
  [h \in {"images.isbndb.com"} |-> {"images.isbndb.com"}] @@
  [h \in {"www.worldcat.org"} |-> {"worldcat.org"}] @@
  [h \in {"via.placeholder.com"} |-> {"via.placeholder.com"}] @@
  [h \in {"books.google.com"} |-> {"books.google.com"}] @@
  [h \in {"m.media-amazon.com"} |-> {"m.media-amazon.com", "amazon.com"}] @@
  [h \in {"ecx.images-amazon.com"} |-> {"ecx.images-amazon.com", "amazon.com"}] @@
  [h \in {"images-na.ssl-images-amazon.com"} |->
     {"images-na.ssl-images-amazon.com", "ssl-images-amazon.com", "amazon.com"}] @@
  [h \in {"ssl-images-amazon.com"} |-> {"ssl-images-amazon.com", "amazon.com"}] @@
  [h \in {"d2arxad8u2l0g7.cloudfront.net"} |->
     {"d2arxad8u2l0g7.cloudfront.net", "cloudfront.net"}] @@
  [h \in {"cdn.example.com"} |-> {}] @@
  [h \in {""} |-> {}]

\* url.includes(domain)
UrlIncludes(url, domain) == domain \in HostParts[url.host]

\* Boolean(url): '' and null are falsy
Truthy(url) == url # NoUrl

RECURSIVE SelectUrls(_, _)
SelectUrls(s, keep) ==
  IF s = << >> THEN << >>
  ELSE LET rest == SelectUrls(Tail(s), keep)
       IN IF Head(s) \in keep THEN << Head(s) >> \o rest ELSE rest

SeqRange(s) == {s[i] : i \in DOMAIN s}

\* [...new Set(urls)]: the first occurrence of each element, in order
RECURSIVE Dedup(_)
Dedup(s) ==
  IF s = << >> THEN << >>
  ELSE LET init == Dedup(SubSeq(s, 1, Len(s) - 1))
           last == s[Len(s)]
       IN IF last \in SeqRange(init) THEN init ELSE Append(init, last)

\* s.slice(0, n)
Take(s, n) == SubSeq(s, 1, IF Len(s) < n THEN Len(s) ELSE n)

\* URLFixer.fixes: the keys whose value is null
\* the fixes without the entry of ecx.images-amazon.com: the variant C27 is
\* checked against
FixerBlockedButOne ==
  {"images-na.ssl-images-amazon.com", "ssl-images-amazon.com",
   "d2arxad8u2l0g7.cloudfront.net"}

FixerBlocked ==
  {"images-na.ssl-images-amazon.com", "ssl-images-amazon.com",
   "ecx.images-amazon.com", "d2arxad8u2l0g7.cloudfront.net"}

\* URLFixer.fixUrl: NoUrl for a blocked or missing URL, https forced otherwise
fixUrl(url) ==
  IF ~Truthy(url) THEN NoUrl
  ELSE IF \E bad \in FixerBlocked : UrlIncludes(url, bad) THEN NoUrl
  ELSE IF url.scheme = "http" THEN [url EXCEPT !.scheme = "https"]
  ELSE url

\* URLFixer.isProblematicUrl
isProblematicUrl(url) ==
  Truthy(url) /\ \E domain \in FixerBlocked : UrlIncludes(url, domain)

\* url.includes('undefined') || url.includes('null'): the text "null" or
\* "undefined" interpolated into a template
HasNullText(url) == url.path = "undefined"

\* URLFixer.processUrls
processUrls(urls) ==
  LET fixed == [i \in DOMAIN urls |-> fixUrl(urls[i])]
      processed == SelectUrls(fixed, {u \in SeqRange(fixed) :
                                        Truthy(u) /\ ~HasNullText(u)})
      goodUrls == SelectUrls(processed, {u \in SeqRange(processed) :
                                           ~isProblematicUrl(u)})
      problematicUrls == SelectUrls(processed, {u \in SeqRange(processed) :
                                                  isProblematicUrl(u)})
  IN goodUrls \o problematicUrls

\* URLFixer.generateReliableUrls
generateReliableUrls(book) ==
  LET isbn == cleanISBN(book.isbn)
      isbn10 == FixerConvertToISBN10(isbn)
  IN IF isbn = NoIsbn THEN << >>
     ELSE << Https("covers.openlibrary.org", "/b/isbn/$-L", isbn, "jpg"),
             Https("covers.openlibrary.org", "/b/isbn/$-M", isbn, "jpg"),
             Https("archive.org", "/services/img/$", isbn, "") >>
          \o (IF isbn10 # NoIsbn /\ isbn10 # isbn
              THEN << Https("covers.openlibrary.org", "/b/isbn/$-L", isbn10, "jpg") >>
              ELSE << >>)
          \o << Https("images.isbndb.com", "/covers/-2/-4/$", isbn, "jpg"),
                Https("www.worldcat.org", "/wcpa/cover/$?size=L", isbn, ""),
                Https("covers.openlibrary.org", "/b/olid/OL24364296M-L", NoIsbn, "jpg"),
                Https("archive.org", "/download/$/$", isbn, "jpg") >>

\* ------------------------------------------------ reliableImageSources.js

\* ReliableImageSources.sourceReliability, in insertion order, in thousandths
SourceDomains ==
  << "books.google.com", "covers.openlibrary.org", "openlibrary.org",
     "archive.org", "bookcover.longitood.com", "syndetics.com",
     "images.isbndb.com", "worldcat.org", "via.placeholder.com" >>

sourceReliability ==
  [d \in SeqRange(SourceDomains) |->
     CASE d = "books.google.com" -> 850
       [] d = "covers.openlibrary.org" -> 920
       [] d = "openlibrary.org" -> 900
       [] d = "archive.org" -> 880
       [] d = "bookcover.longitood.com" -> 950
       [] d = "syndetics.com" -> 850
       [] d = "images.isbndb.com" -> 780
       [] d = "worldcat.org" -> 750
       [] d = "via.placeholder.com" -> 990]

\* domain.includes(reliableDomain) || reliableDomain.includes(domain), for the
\* hostnames of the model (a hostname holds the names HostParts lists, and
\* "openlibrary.org" is the one hostname held by a longer table key)
DomainMatches(domain, reliableDomain) ==
  \/ reliableDomain \in HostParts[domain]
  \/ (domain = "openlibrary.org" /\ reliableDomain = "covers.openlibrary.org")

\* ReliableImageSources.getUrlReliability, in thousandths
getUrlReliability(url) ==
  LET domain == url.host
      hits == {i \in DOMAIN SourceDomains : DomainMatches(domain, SourceDomains[i])}
  IN IF domain \in SeqRange(SourceDomains) THEN sourceReliability[domain]
     ELSE IF hits # {}
     THEN LET first == CHOOSE i \in hits : \A j \in hits : i <= j
          IN (sourceReliability[SourceDomains[first]] * 9) \div 10
     ELSE 300

\* Array.prototype.sort with (a, b) => b.reliability - a.reliability: stable,
\* highest reliability first
RECURSIVE InsertByReliability(_, _)
InsertByReliability(sorted, u) ==
  IF sorted = << >> THEN << u >>
  ELSE IF getUrlReliability(Head(sorted)) >= getUrlReliability(u)
  THEN << Head(sorted) >> \o InsertByReliability(Tail(sorted), u)
  ELSE << u >> \o sorted

RECURSIVE SortByReliability(_)
SortByReliability(s) ==
  IF s = << >> THEN << >>
  ELSE InsertByReliability(SortByReliability(SubSeq(s, 1, Len(s) - 1)), s[Len(s)])

\* ReliableImageSources.prioritizeUrls (every URL of the model is a string
\* longer than 10 characters, except '')
prioritizeUrls(urls) ==
  LET unique == Dedup(urls)
  IN SortByReliability(SelectUrls(unique, {u \in SeqRange(unique) : Truthy(u)}))

\* ReliableImageSources.generateReliableFallbacks
generateReliableFallbacks(book) ==
  LET isbn == book.isbn
      isbn13 == convertToISBN13(isbn)
      isbn10 == convertToISBN10(isbn)
      googleId == book.google_books_id
      If(c, s) == IF c THEN s ELSE << >>
  IN If(isbn13 # NoIsbn,
        << Https("covers.openlibrary.org", "/b/isbn/$-L", isbn13, "jpg"),
           Https("covers.openlibrary.org", "/b/isbn/$-M", isbn13, "jpg") >>)
     \o If(isbn10 # NoIsbn,
        << Https("covers.openlibrary.org", "/b/isbn/$-L", isbn10, "jpg"),
           Https("covers.openlibrary.org", "/b/isbn/$-M", isbn10, "jpg") >>)
     \o If(isbn # NoIsbn,
        << Https("covers.openlibrary.org", "/b/isbn/$-L", StripDashes(isbn), "jpg") >>)
     \o If(googleId # NoIsbn,
        << Https("openlibrary.org", "/books/$", googleId, "jpg"),
           Https("books.google.com", "/books/content?id=$&zoom=1", googleId, ""),
           Https("books.google.com", "/books/content?id=$&zoom=0", googleId, "") >>)
     \o If(isbn # NoIsbn,
        << Https("archive.org", "/services/img/$", isbn, ""),
           Https("bookcover.longitood.com", "/bookcover/$", isbn, "") >>)
     \o If(isbn13 # NoIsbn,
        << Https("syndetics.com", "/index.aspx?isbn=$/MC", isbn13, "GIF"),
           Https("images.isbndb.com", "/covers/2/4/6/$", isbn13, "jpg") >>)
     \o If(isbn10 # NoIsbn,
        << Https("syndetics.com", "/index.aspx?isbn=$/MC", isbn10, "GIF") >>)
     \o If(isbn # NoIsbn,
        << Https("www.worldcat.org", "/wcpa/coveredart?isbn=$&size=L", isbn, ""),
           Https("www.worldcat.org", "/wcpa/coveredart?isbn=$&size=M", isbn, "") >>)
     \o << Https("via.placeholder.com", "/400x600/?text=title+by+author", book.title, ""),
           Https("via.placeholder.com", "/300x450/?text=title", book.title, ""),
           Https("via.placeholder.com", "/400x600/?text=Book+Cover", NoIsbn, "") >>

TopUrls == 10

\* ReliableImageSources.getOptimizedUrls
getOptimizedUrls(book) ==
  LET combined == generateReliableFallbacks(book) \o book.fallback_urls
      unique == Dedup(combined)
  IN Take(prioritizeUrls(unique), TopUrls)

\* ------------------------------------------------------------ imageCache.js

ImageExtensions == {"jpg", "jpeg", "png", "gif", "webp", "JPG", "GIF", "PNG"}

ValidationBlocked == {"images-na.ssl-images-amazon.com", "d2arxad8u2l0g7.cloudfront.net"}

\* ImageCache.validateImageUrl
validateImageUrl(url) ==
  LET isValidProtocol == url.scheme \in {"http", "https"}
      hasValidExtension == url.ext \in ImageExtensions
      isNotEmpty == ~HasNullText(url)
      isDomainOk == ~\E domain \in ValidationBlocked : UrlIncludes(url, domain)
  IN isValidProtocol /\ hasValidExtension /\ isNotEmpty /\ isDomainOk

MaxCandidates == 8

\* CandidateList without the filter and the slice of step 4: the variant C21
\* is checked against
CandidateListUnfiltered(urls, hasBook, book) ==
  IF hasBook
  THEN getOptimizedUrls(book) \o processUrls(generateReliableUrls(book) \o urls)
  ELSE processUrls(urls)

\* ImageCache.loadImageWithFallbacks, steps 1 to 4: the candidate list of a
\* call with the given urls and bookData (hasBook FALSE: bookData is null)
CandidateList(urls, hasBook, book) ==
  LET allUrls == IF hasBook THEN generateReliableUrls(book) \o urls ELSE urls
      processedUrls == processUrls(allUrls)
      prioritizedUrls == IF hasBook THEN getOptimizedUrls(book) \o processedUrls
                         ELSE processedUrls
  IN Take(SelectUrls(prioritizedUrls,
                     {u \in SeqRange(prioritizedUrls) : Truthy(u) /\ validateImageUrl(u)}),
          MaxCandidates)

\* ------------------------------------------------------------------ bounds

NumCalls == 2        \* resolution calls made in one behaviour
MaxImages == 3       \* Image objects created in one behaviour
MaxTime == 5         \* the clock, in units of ten minutes

\* ----------------------------------------------------------------- catalog

Isbn13 == << 9, 7, 8, 0, 4, 3, 9, 7, 0, 8, 1, 8, 0 >>

CdnA == Https("cdn.example.com", "/a", NoIsbn, "jpg")
OlHttp == Url("http", "covers.openlibrary.org", "/b/id/1-L", NoIsbn, "jpg")
GoogleContent == Https("books.google.com", "/books/content?id=$&img=1", << 1 >>, "")
Found == Https("cdn.example.com", "/found", NoIsbn, "jpg")

Book(title, isbn, cover, fallbacks) ==
  [isbn |-> isbn, title |-> << title >>, google_books_id |-> NoIsbn,
   cover_url |-> cover, fallback_urls |-> fallbacks]

\* The items resolution calls are made for: a cover and an http fallback and
\* no ISBN; nothing at all; only a Google Books cover; an ISBN-13 and nothing
\* else; nothing but a long title.
Books ==
  << Book(1, NoIsbn, CdnA, << OlHttp >>),
     Book(2, NoIsbn, NoUrl, << >>),
     Book(3, NoIsbn, GoogleContent, << >>),
     Book(4, Isbn13, NoUrl, << >>),
     Book(5, NoIsbn, NoUrl, << >>) >>

BookIds == DOMAIN Books

\* n UTF-16 code units of the basic plane
Plain(n) == [i \in 1 .. n |-> "bmp"]

\* book.title of each item as UTF-16 code units ("hi" and "lo" are the two
\* halves of a character outside the basic plane): four short titles, and a
\* title whose 30th and 31st units are one such character
TitleText ==
  << Plain(5), Plain(5), Plain(5), Plain(5), Plain(29) \o << "hi", "lo" >> >>

TitleSlice == 30

\* encodeURIComponent(s) throws URIError: s holds a lone surrogate
HasLoneSurrogate(s) ==
  \E i \in DOMAIN s :
    \/ s[i] = "hi" /\ (i = Len(s) \/ s[i + 1] # "lo")
    \/ s[i] = "lo" /\ (i = 1 \/ s[i - 1] # "hi")

\* generateReliableFallbacks(book) throws, at
\* encodeURIComponent((book.title || '').slice(0, 30))
FallbacksThrow(b) == HasLoneSurrogate(Take(TitleText[b], TitleSlice))

\* the urls argument the callers build: [cover_url, ...fallback_urls].filter(Boolean)
ImageSources(book) ==
  LET all == << book.cover_url >> \o book.fallback_urls
  IN SelectUrls(all, {u \in SeqRange(all) : Truthy(u)})

\* the candidate list of each (item, bookData given) pair, computed once
ValidUrls ==
  [b \in BookIds, h \in BOOLEAN |-> CandidateList(ImageSources(Books[b]), h, Books[b])]

\* what tryGoogleCustomSearch may return for an item: nothing, or a cover
SearchHits == {NoUrl, Found}

\* naturalWidth x naturalHeight of a loaded image
Dims == { << 1, 1 >>, << 400, 10 >>, << 11, 400 >> }

\* ------------------------------------------------------------------- state

VARIABLES
  cache,              \* ImageCache.cache: the entries, one per fixed URL
  preloadQueue,       \* ImageCache.preloadQueue
  failedUrls,         \* ImageCache.failedUrls
  lastFailedCleanup,  \* ImageCache.lastFailedCleanup, 0 while undefined
  now,                \* Date.now()
  images,             \* the Image objects created by preloadImage, in order
  calls,              \* the loadImageWithFallbacks calls made
  apiEnabled,         \* GoogleImageSearch.apiEnabled
  searchCache,        \* GoogleImageSearch.cache: entries [book, imageUrl]
  failingBooks,       \* ImageDebugger.failingBooks: records [book, attemptedUrls]
  bulk,               \* the bulk preload operation in progress
  probe,              \* a helper function applied to an input: [fn, in, out, urls]
  firestore,          \* the documents of the Firestore collection 'books', by id
  storage,            \* the cover objects in Firebase Storage
  uploaded,           \* the number of covers uploaded so far
  user,               \* what getCurrentUser() finds
  lastOp,             \* the last cover operation or load and what it did
  loaded,             \* the books the last loadBooksWithCustomCovers returned
  booksApi,           \* GoogleBooksAPI: its clock, lastRequestTime, requests sent
  manager             \* EnhancedBooksManager: its fields and the calls made

\* the variables of the cover services
adminVars == << firestore, storage, uploaded, user, lastOp, loaded >>

vars == << cache, preloadQueue, failedUrls, lastFailedCleanup, now, images,
           calls, apiEnabled, searchCache, failingBooks, bulk, probe,
           firestore, storage, uploaded, user, lastOp, loaded, booksApi,
           manager >>

CallIds == 1 .. NumCalls

NoEntry == [url |-> NoUrl, originalUrl |-> NoUrl, timestamp |-> 0,
            width |-> 0, height |-> 0]

\* this.cache.has(url)
CacheHas(c, url) == \E e \in c : e.url = url

\* this.cache.get(url) || null
CacheGet(c, url) == IF CacheHas(c, url) THEN CHOOSE e \in c : e.url = url ELSE NoEntry

\* this.cache.set(entry.url, entry)
CacheSet(c, entry) == {e \in c : e.url # entry.url} \cup {entry}

\* A call in progress.  pc: idle, loop (about to run a loop iteration), load
\* (awaiting the Image it created), poll (awaiting an in-flight URL), search
\* (awaiting findBookCover), delay (the retry timer), done (returned), thrown
\* (the promise of the call is rejected).
\* attempts, passes, searched, waited, winner, polled and pollValue record
\* what the call did.
\* No bulk operation.  op: none, batch (batchPreload), visible
\* (preloadVisibleBooks) or grid (the preload effect of the grid); items: the
\* URLs or books handed to it; started: how many of them it has begun to
\* load; inFlight: the ones whose load is pending.
NoBulk == [op |-> "none", items |-> 0, started |-> 0, inFlight |-> {}]

NumAdminBooks == 2   \* books of the static catalog that covers are managed for
MaxUploads == 3      \* covers uploaded in one behaviour

AdminBookIds == 1 .. NumAdminBooks

\* A book as the cover code sees it: title and metadata.cover_url (<< >> when
\* the field is missing), metadata.custom_cover_url (the number of the
\* uploaded cover, 0 for '' or missing) and metadata.cover_source.
\* A book of the static catalog, as getEnhancedBooks returns it:
StaticBook(b) ==
  [exists |-> TRUE, title |-> << "title", b >>, cover_url |-> << "api", b >>,
   custom_cover_url |-> 0, cover_source |-> ""]

\* no document of that id
NoDoc ==
  [exists |-> FALSE, title |-> << >>, cover_url |-> << >>,
   custom_cover_url |-> 0, cover_source |-> ""]

\* nothing done yet.  kind: update, revert or load; permitted: what
\* hasPermission returned; outcome: ok or thrown; url: the cover uploaded;
\* effects: the storage and Firestore requests made.
NoOp ==
  [kind |-> "none", book |-> 0, permitted |-> FALSE, outcome |-> "",
   url |-> 0, effects |-> {}]

\* no helper function has been applied
NoProbe == [fn |-> "none", in |-> NoIsbn, out |-> NoIsbn, urls |-> << >>]

rateLimitDelay == 2   \* 100 ms, in units of 50 ms
MaxRequests == 3      \* requests sent in one behaviour
MaxClock == 6         \* the last instant of the clock of the API

\* GoogleBooksAPI after construction, long after the epoch: lastRequestTime
\* 0, nothing requested, no call of getBookByISBN or searchBooks made
IdleApi ==
  [clock |-> rateLimitDelay, lastRequestTime |-> 0, requests |-> << >>,
   calls |-> [c \in CallIds |-> [pc |-> "idle", wake |-> 0]]]

\* EnhancedBooksManager after construction, the API key present or not:
\* enhancedBooks null and loading false; fresh: lastFetch is less than five
\* minutes ago; runs: the enhancement runs in progress.  Of each call: where
\* it is, what it returned, and what it found when it was made.
IdleManager(hasApiKey) ==
  [hasApiKey |-> hasApiKey, loading |-> FALSE, enhancedBooks |-> FALSE,
   fresh |-> FALSE, runs |-> 0,
   calls |-> [c \in CallIds |->
     [pc |-> "idle", result |-> "", forceRefresh |-> FALSE,
      duringRun |-> FALSE, wasFresh |-> FALSE, startedRun |-> FALSE]]]

IdleCall ==
  [pc |-> "idle", book |-> 0, hasBook |-> FALSE, retryCount |-> 0, i |-> 0,
   phase |-> "", url |-> NoUrl, img |-> 0, result |-> NoEntry,
   attempts |-> << >>, passes |-> 0, searched |-> FALSE, waited |-> FALSE,
   winner |-> 0, polled |-> 0, pollValue |-> NoEntry]

InitImageCache ==
  /\ cache = {}
  /\ preloadQueue = {}
  /\ failedUrls = {}
  /\ lastFailedCleanup = 0
  /\ now = 1
  /\ images = << >>
  /\ calls = [c \in CallIds |-> IdleCall]
  /\ apiEnabled \in BOOLEAN
  /\ searchCache = {}
  /\ failingBooks = << >>
  /\ bulk = NoBulk
  /\ firestore = [b \in AdminBookIds |-> NoDoc]
  /\ storage = {}
  /\ uploaded = 0
  /\ user = "none"
  /\ lastOp = NoOp
  /\ loaded = {}
  /\ booksApi = IdleApi

Init == InitImageCache /\ probe = NoProbe /\ manager = IdleManager(TRUE)

CallList(call) == ValidUrls[call.book, call.hasBook]

\* the Image in flight for a URL of the preload queue: the last one created
InFlight(url) ==
  CHOOSE k \in DOMAIN images :
    /\ images[k].url = url
    /\ \A m \in DOMAIN images : images[m].url = url => m <= k

\* ---------------------------------------------- loadImageWithFallbacks

\* the loop's skip of known failed URLs: the first index from i on that the
\* loop does not skip, Len + 1 when it skips them all
RECURSIVE NextIndex(_, _, _, _)
NextIndex(list, i, retryCount, failed) ==
  IF i > Len(list) THEN i
  ELSE IF list[i] \in failed /\ retryCount = 0
  THEN NextIndex(list, i + 1, retryCount, failed)
  ELSE i

\* steps 5 and 6 and the end of the function, once the loop has ended
AfterLoop(call) ==
  IF call.retryCount = 0 /\ call.hasBook
  THEN [call EXCEPT !.pc = "search", !.phase = "search"]
  ELSE [call EXCEPT !.pc = "done", !.result = NoEntry]

\* step 6, reached when the image search gave nothing
AfterSearch(call) ==
  IF call.retryCount = 0 /\ call.hasBook
  THEN [call EXCEPT !.pc = "delay"]
  ELSE [call EXCEPT !.pc = "done", !.result = NoEntry]

\* Resumed for a loop that does not return on a success but goes on to the
\* next candidate: the variant C3 is checked against
ResumedWithoutReturn(call, result) ==
  IF call.phase = "list"
  THEN [call EXCEPT !.pc = "loop", !.i = call.i + 1]
  ELSE IF result # NoEntry
  THEN [call EXCEPT !.pc = "done", !.result = result]
  ELSE AfterSearch(call)

\* the call's continuation once the awaited preloadImage resolved with result
Resumed(call, result) ==
  IF result # NoEntry
  THEN [call EXCEPT !.pc = "done", !.result = result,
                    !.winner = IF call.phase = "list" THEN call.i ELSE 0]
  ELSE IF call.phase = "list"
  THEN [call EXCEPT !.pc = "loop", !.i = call.i + 1]
  ELSE AfterSearch(call)

\* this.failedUrls.delete(url) of the loop's success branch
FailedAfterResume(call, result, failed) ==
  IF result # NoEntry /\ call.phase = "list"
  THEN failed \ {CallList(call)[call.i]}
  ELSE failed

\* loadImageWithFallbacks(urls, priority, bookData) is called: steps 1 to 4,
\* which no try block encloses
StartCall(c, b, h) ==
  /\ calls[c].pc = "idle"
  /\ \A d \in CallIds : d < c => calls[d].pc # "idle"
  /\ calls' = [calls EXCEPT ![c] =
       IF h /\ FallbacksThrow(b)
       THEN [IdleCall EXCEPT !.pc = "thrown", !.book = b, !.hasBook = h]
       ELSE [IdleCall EXCEPT !.pc = "loop", !.book = b, !.hasBook = h, !.i = 1,
                             !.phase = "list", !.passes = 1]]
  /\ UNCHANGED << cache, preloadQueue, failedUrls, lastFailedCleanup, now,
                  images, apiEnabled, searchCache, failingBooks, bulk, probe,
                  adminVars, booksApi, manager >>

\* Settled with the failed set left out: the variant C7 is checked against
SettledIfCached(fixedUrl) == CacheHas(cache, fixedUrl)

\* this.cache.has(fixedUrl) || this.failedUrls.has(fixedUrl)
Settled(fixedUrl) == CacheHas(cache, fixedUrl) \/ fixedUrl \in failedUrls

\* preloadImage(url) as call c reaches it: what it does before its promise
PreloadImage(c, call, url) ==
  LET fixedUrl == fixUrl(url)
      at == [call EXCEPT !.url = fixedUrl]
  IN IF fixedUrl = NoUrl
     THEN /\ calls' = [calls EXCEPT ![c] = Resumed(at, NoEntry)]
          /\ UNCHANGED << preloadQueue, failedUrls, images >>
     ELSE IF Settled(fixedUrl)
     THEN /\ calls' = [calls EXCEPT ![c] = Resumed(at, CacheGet(cache, fixedUrl))]
          /\ failedUrls' = FailedAfterResume(at, CacheGet(cache, fixedUrl), failedUrls)
          /\ UNCHANGED << preloadQueue, images >>
     ELSE IF fixedUrl \in preloadQueue
     THEN /\ calls' = [calls EXCEPT ![c] =
               [at EXCEPT !.pc = "poll", !.img = InFlight(fixedUrl)]]
          /\ UNCHANGED << preloadQueue, failedUrls, images >>
     ELSE /\ Len(images) < MaxImages
          /\ preloadQueue' = preloadQueue \cup {fixedUrl}
          /\ images' = Append(images,
               [url |-> fixedUrl, originalUrl |-> url, state |-> "pending",
                owner |-> c, width |-> 0, height |-> 0, value |-> NoEntry])
          /\ calls' = [calls EXCEPT ![c] =
               [at EXCEPT !.pc = "load", !.img = Len(images) + 1,
                          !.attempts = Append(call.attempts,
                             [pass |-> call.passes, i |-> call.i,
                              phase |-> call.phase, url |-> fixedUrl])]]
          /\ UNCHANGED failedUrls

\* preloadImage(url) called on its own, as batchPreload calls it for each URL
\* of a chunk
preloadImage(c, url) ==
  /\ calls[c].pc \in {"idle", "done", "thrown"}
  /\ PreloadImage(c, [IdleCall EXCEPT !.phase = "direct"], url)
  /\ UNCHANGED << cache, lastFailedCleanup, now, apiEnabled, searchCache,
                  failingBooks, bulk, probe, adminVars, booksApi, manager >>

\* one iteration of the for loop, up to its await (the skipped candidates
\* before it included), or the code after the loop up to its first await
LoopStep(c) ==
  LET call == calls[c]
      list == CallList(call)
      j == NextIndex(list, call.i, call.retryCount, failedUrls)
  IN /\ call.pc = "loop"
     /\ IF j > Len(list)
        THEN /\ calls' = [calls EXCEPT ![c] = AfterLoop([call EXCEPT !.i = j])]
             /\ UNCHANGED << preloadQueue, failedUrls, images >>
        ELSE PreloadImage(c, [call EXCEPT !.i = j], list[j])
     /\ UNCHANGED << cache, lastFailedCleanup, now, apiEnabled, searchCache,
                     failingBooks, bulk, probe,
                     adminVars, booksApi, manager >>

\* the 2000 ms timer of step 6 fires: the recursive call with retryCount 1
RetryDelay(c) ==
  /\ calls[c].pc = "delay"
  /\ calls' = [calls EXCEPT ![c] =
       [@ EXCEPT !.pc = "loop", !.retryCount = 1, !.i = 1, !.phase = "list",
                 !.passes = @ + 1, !.waited = TRUE]]
  /\ UNCHANGED << cache, preloadQueue, failedUrls, lastFailedCleanup, now,
                  images, apiEnabled, searchCache, failingBooks, bulk, probe,
                  adminVars, booksApi, manager >>

\* -------------------------------------------------------- preloadImage

MinDimension == 10

\* TooSmall for an image small in both axes only: the variant C8 is checked
\* against
TooSmallInBoth(width, height) == width <= MinDimension /\ height <= MinDimension

\* img.naturalWidth <= 10 || img.naturalHeight <= 10
TooSmall(width, height) == width <= MinDimension \/ height <= MinDimension

\* An Image is pending until its first event; then timedout (the timer fired
\* first and a load or error event may still come), loaded or error (that event
\* came in time), and late once an event has come after the timeout.  width,
\* height record the size it loaded with, value what its promise delivered.

\* the promise of Image k is resolved with value: its owner, still awaiting
\* it, runs on; a promise already resolved ignores the call
Resolve(k, value, failed) ==
  LET c == images[k].owner
  IN IF images[k].state = "pending"
     THEN /\ calls' = [calls EXCEPT ![c] = Resumed(@, value)]
          /\ failedUrls' = FailedAfterResume(calls[c], value, failed)
     ELSE /\ calls' = calls
          /\ failedUrls' = failed

\* the setTimeout callback of preloadImage
ImageTimeout(k) ==
  LET url == images[k].url
  IN /\ images[k].state = "pending"
     /\ preloadQueue' = preloadQueue \ {url}
     /\ Resolve(k, NoEntry, failedUrls \cup {url})
     /\ images' = [images EXCEPT ![k].state = "timedout"]
     /\ UNCHANGED << cache, lastFailedCleanup, now, apiEnabled, searchCache,
                     failingBooks, bulk, probe,
                     adminVars, booksApi, manager >>

\* img.onload, with the image's natural size; the browser may deliver it
\* after the timeout callback has run, which does not cancel the load
ImageOnLoad(k, width, height) ==
  LET url == images[k].url
      late == images[k].state = "timedout"
      entry == [url |-> url, originalUrl |-> images[k].originalUrl,
                timestamp |-> now, width |-> width, height |-> height]
  IN /\ images[k].state \in {"pending", "timedout"}
     /\ IF TooSmall(width, height)
        THEN /\ preloadQueue' = preloadQueue \ {url}
             /\ Resolve(k, NoEntry, failedUrls \cup {url})
             /\ cache' = cache
             /\ images' = [images EXCEPT
                  ![k].state = IF late THEN "late" ELSE "loaded",
                  ![k].width = width, ![k].height = height]
        ELSE /\ cache' = CacheSet(cache, entry)
             /\ preloadQueue' = preloadQueue \ {url}
             /\ Resolve(k, entry, failedUrls)
             /\ images' = [images EXCEPT
                  ![k].state = IF late THEN "late" ELSE "loaded",
                  ![k].width = width, ![k].height = height,
                  ![k].value = IF late THEN @ ELSE entry]
     /\ UNCHANGED << lastFailedCleanup, now, apiEnabled, searchCache,
                     failingBooks, bulk, probe,
                     adminVars, booksApi, manager >>

\* img.onerror
ImageOnError(k) ==
  LET url == images[k].url
  IN /\ images[k].state \in {"pending", "timedout"}
     /\ preloadQueue' = preloadQueue \ {url}
     /\ Resolve(k, NoEntry, failedUrls \cup {url})
     /\ images' = [images EXCEPT
          ![k].state = IF images[k].state = "timedout" THEN "late" ELSE "error"]
     /\ UNCHANGED << cache, lastFailedCleanup, now, apiEnabled, searchCache,
                     failingBooks, bulk, probe,
                     adminVars, booksApi, manager >>

\* a tick of the 10 ms setInterval of a caller that found the URL in flight;
\* a tick that finds the URL neither cached nor failed changes nothing
PollTick(c) ==
  LET call == calls[c]
      value == CacheGet(cache, call.url)
      seen == [call EXCEPT !.polled = call.img, !.pollValue = value]
  IN /\ call.pc = "poll"
     /\ CacheHas(cache, call.url) \/ call.url \in failedUrls
     /\ calls' = [calls EXCEPT ![c] = Resumed(seen, value)]
     /\ failedUrls' = FailedAfterResume(call, value, failedUrls)
     /\ UNCHANGED << cache, preloadQueue, lastFailedCleanup, now, images,
                     apiEnabled, searchCache, failingBooks, bulk, probe,
                     adminVars, booksApi, manager >>

\* --------------------------------------------------- googleImageSearch

SearchTtl == 144

\* GoogleImageSearch.convertISBN: ISBN-10 to ISBN-13 and ISBN-13 to ISBN-10
convertISBN(isbn) ==
  IF isbn = NoIsbn THEN NoIsbn
  ELSE LET cleanIsbn == StripDashes(isbn)
       IN IF Len(cleanIsbn) = 10
          THEN LET isbn13 == << 9, 7, 8 >> \o Slice(cleanIsbn, 0, 9)
                   checksum == WeightedSum(isbn13, Weights13, 1)
               IN isbn13 \o NumText(IF checksum = NaN THEN NaN
                                     ELSE (10 - (checksum % 10)) % 10)
          ELSE IF Len(cleanIsbn) = 13 /\ StartsWith978(cleanIsbn)
          THEN LET isbn10Base == Slice(cleanIsbn, 3, 12)
                   checksum == WeightedSum(isbn10Base, Weights10, 1)
                   checkDigit == (11 - (checksum % 11)) % 11
               IN isbn10Base \o (IF checksum = NaN THEN NumText(NaN)
                                 ELSE IF checkDigit = 10 THEN << CharX >>
                                 ELSE NumText(checkDigit))
          ELSE NoIsbn

\* GoogleImageSearch.tryISBNSources
tryISBNSources(book) ==
  IF book.isbn = NoIsbn THEN NoUrl
  ELSE Https("covers.openlibrary.org", "/b/isbn/$-L", book.isbn, "jpg")

\* step 5: findBookCover(bookData) and, with a URL found, preloadImage of it.
\* hit is what the search request returns when one is made.
Search(c, hit) ==
  LET call == calls[c]
      book == Books[call.book]
      cached == {e \in searchCache :
                   e.book = call.book /\ e.timestamp > now - SearchTtl}
      request == apiEnabled /\ cached = {}
      found == IF ~apiEnabled THEN NoUrl
               ELSE IF cached # {} THEN (CHOOSE e \in cached : TRUE).imageUrl
               ELSE IF hit # NoUrl THEN hit
               ELSE tryISBNSources(book)
      asked == [call EXCEPT !.searched = @ \/ request]
  IN /\ call.pc = "search"
     /\ request \/ hit = NoUrl
     /\ searchCache' =
          IF request /\ found # NoUrl
          THEN {e \in searchCache : e.book # call.book}
               \cup {[book |-> call.book, imageUrl |-> found, timestamp |-> now]}
          ELSE searchCache
     /\ IF found = NoUrl
        THEN /\ calls' = [calls EXCEPT ![c] = AfterSearch(asked)]
             /\ UNCHANGED << preloadQueue, failedUrls, images >>
        ELSE PreloadImage(c, asked, found)
     /\ UNCHANGED << cache, lastFailedCleanup, now, apiEnabled, failingBooks,
                     bulk, probe,
                     adminVars, booksApi, manager >>

\* ----------------------------------------------------------- environment

\* ImageCache.resetFailedUrls
resetFailedUrls ==
  /\ failedUrls' = {}
  /\ UNCHANGED << cache, preloadQueue, lastFailedCleanup, now, images, calls,
                  apiEnabled, searchCache, failingBooks, bulk, probe,
                  adminVars, booksApi, manager >>

MaxAge == 3
FailedClearAfter == 1

\* Expired for an entry whose age has reached maxAge: the variant C16 is
\* checked against
ExpiredAtAge(entry, at, maxAge) == at - entry.timestamp >= maxAge

\* now - data.timestamp > maxAge
Expired(entry, at, maxAge) == at - entry.timestamp > maxAge

\* ImageCache.cleanup(maxAge), run by the ten-minute interval timer
cleanup ==
  /\ cache' = {e \in cache : ~Expired(e, now, MaxAge)}
  /\ IF lastFailedCleanup # 0 /\ now - lastFailedCleanup > FailedClearAfter
     THEN failedUrls' = {} /\ lastFailedCleanup' = now
     ELSE IF lastFailedCleanup = 0
     THEN failedUrls' = failedUrls /\ lastFailedCleanup' = now
     ELSE UNCHANGED << failedUrls, lastFailedCleanup >>
  /\ UNCHANGED << preloadQueue, now, images, calls, apiEnabled, searchCache,
                  failingBooks, bulk, probe,
                  adminVars, booksApi, manager >>

\* ten minutes pass
Tick ==
  /\ now < MaxTime
  /\ now' = now + 1
  /\ UNCHANGED << cache, preloadQueue, failedUrls, lastFailedCleanup, images,
                  calls, apiEnabled, searchCache, failingBooks, bulk, probe,
                  adminVars, booksApi, manager >>

\* ------------------------------------------------------- bulk preloads

MaxBulk == 8         \* URLs or books handed to one bulk operation

MaxConcurrent == 6
VisibleCount == 12

Min(a, b) == IF a < b THEN a ELSE b

\* ImageCache.batchPreload(urls) with n URLs that are neither cached nor
\* failed: preloadImage for each URL of the first chunk, up to the await
batchPreload(n) ==
  /\ bulk.op = "none"
  /\ bulk' = [op |-> "batch", items |-> n,
              started |-> Min(n, MaxConcurrent),
              inFlight |-> 1 .. Min(n, MaxConcurrent)]
  /\ UNCHANGED << cache, preloadQueue, failedUrls, lastFailedCleanup, now,
                  images, calls, apiEnabled, searchCache, failingBooks, probe,
                  adminVars, booksApi, manager >>

\* ImageCache.preloadVisibleBooks(books, startIndex) with n books from
\* startIndex on, each with a cover of its own: forEach calls
\* loadImageWithFallbacks for each of the first count books and awaits none,
\* so each call runs to the await of its first preloadImage
preloadVisibleBooks(n) ==
  /\ bulk.op = "none"
  /\ bulk' = [op |-> "visible", items |-> n,
              started |-> Min(n, VisibleCount),
              inFlight |-> 1 .. Min(n, VisibleCount)]
  /\ UNCHANGED << cache, preloadQueue, failedUrls, lastFailedCleanup, now,
                  images, calls, apiEnabled, searchCache, failingBooks, probe,
                  adminVars, booksApi, manager >>

\* the preload effect of VirtualBookGrid with n books in the preload rows:
\* forEach calls loadImageWithFallbacks for every one and awaits none
GridPreload(n) ==
  /\ bulk.op = "none"
  /\ bulk' = [op |-> "grid", items |-> n, started |-> n, inFlight |-> 1 .. n]
  /\ UNCHANGED << cache, preloadQueue, failedUrls, lastFailedCleanup, now,
                  images, calls, apiEnabled, searchCache, failingBooks, probe,
                  adminVars, booksApi, manager >>

\* the load of item i of the bulk operation settles (loaded, failed or timed
\* out, and for a book no candidate left); with the last load of a chunk
\* Promise.allSettled resolves and batchPreload starts its next chunk or
\* returns
BulkSettle(i) ==
  LET rest == bulk.inFlight \ {i}
      upTo == Min(bulk.items, bulk.started + MaxConcurrent)
  IN /\ i \in bulk.inFlight
     /\ bulk' = IF rest # {} THEN [bulk EXCEPT !.inFlight = rest]
                ELSE IF bulk.op = "batch" /\ bulk.started < bulk.items
                THEN [bulk EXCEPT !.started = upTo,
                                  !.inFlight = (bulk.started + 1) .. upTo]
                ELSE NoBulk
     /\ UNCHANGED << cache, preloadQueue, failedUrls, lastFailedCleanup, now,
                     images, calls, apiEnabled, searchCache, failingBooks,
                     probe,
                     adminVars, booksApi, manager >>

\* -------------------------------------------------------- ISBN helpers

BaseHigh == 3        \* the highest eighth digit of the ISBNs the helpers get

\* the first nine digits of the ISBN-10 form of the ISBNs the helpers get
IsbnBases ==
  { << 0, 4, 3, 9, 7, 0, 8 >> \o << a, b >> : a \in 0 .. BaseHigh, b \in 0 .. 9 }

\* The ISBNs the helpers get: 13 digits with prefix 978 or 979 and any last
\* digit, 10 characters with any last digit or X, and an ISBN-13 written with
\* a hyphen after its prefix.
IsbnInputs ==
  { p \o base \o << d >> :
      p \in { << 9, 7, 8 >>, << 9, 7, 9 >> }, base \in IsbnBases, d \in 0 .. 9 }
  \cup { base \o << d >> : base \in IsbnBases, d \in 0 .. CharX }
  \cup { << 9, 7, 8, CharDash >> \o Slice(Isbn13, 3, 13) }

\* a helper is about to be called with one of the ISBNs
InitIsbn ==
  /\ InitImageCache
  /\ ~apiEnabled
  /\ probe \in {[NoProbe EXCEPT !.fn = "input", !.in = x] : x \in IsbnInputs}
  /\ manager = IdleManager(TRUE)

\* the helper named fn is applied to the input and returns out
Apply(fn, out, urls) ==
  /\ probe.fn = "input"
  /\ probe' = [probe EXCEPT !.fn = fn, !.out = out, !.urls = urls]
  /\ UNCHANGED << cache, preloadQueue, failedUrls, lastFailedCleanup, now,
                  images, calls, apiEnabled, searchCache, failingBooks, bulk,
                  adminVars, booksApi, manager >>

\* urlFixer.generateReliableUrls(book), which calls cleanISBN(book.isbn)
ApplyCleanISBN ==
  Apply("cleanISBN", cleanISBN(probe.in), generateReliableUrls([isbn |-> probe.in]))

\* reliableImageSources: ISBN-13 to ISBN-10, back to ISBN-13, to ISBN-10 again
ApplyRoundTrip ==
  Apply("roundTrip",
        convertToISBN10(convertToISBN13(convertToISBN10(probe.in))), << >>)

\* googleImageSearch: the same conversions, each made by convertISBN
ApplyRoundTripSearch ==
  Apply("roundTripSearch", convertISBN(convertISBN(convertISBN(probe.in))), << >>)

\* urlFixer.convertToISBN10
ApplyFixerConvertToISBN10 ==
  Apply("urlFixer.convertToISBN10", FixerConvertToISBN10(probe.in), << >>)

\* reliableImageSources.convertToISBN10
ApplyConvertToISBN10 ==
  Apply("convertToISBN10", convertToISBN10(probe.in), << >>)

\* googleImageSearch.convertISBN
ApplyConvertISBN ==
  Apply("convertISBN", convertISBN(probe.in), << >>)

\* ------------------------------------------------- enhancedImageCache.js

\* The URLs scored.  A URL is here a record [scheme, host, names, ext, long]:
\* scheme "" is a string that new URL() cannot parse, names are the domain
\* names that occur anywhere in the string (those of the host, and others in
\* its path or query), ext is the extension that occurs in it, long is
\* url.length >= 200.
ScoreHosts ==
  {"m.media-amazon.com", "covers.openlibrary.org",
   "images-na.ssl-images-amazon.com", "d2arxad8u2l0g7.cloudfront.net",
   "books.google.com", "compressed.photo.goodreads.com", "cdn.example.com"}

HostNames(host) ==
  {host} \cup (IF host = "images-na.ssl-images-amazon.com"
               THEN {"ssl-images-amazon.com"} ELSE {})

ScoreInputs ==
  { [scheme |-> sc, host |-> h, names |-> HostNames(h) \cup extra,
     ext |-> e, long |-> l] :
      sc \in {"https", "http", ""}, h \in ScoreHosts,
      extra \in SUBSET {"compressed.photo.goodreads.com", "ssl-images-amazon.com"},
      e \in {"jpg", "png", ""}, l \in BOOLEAN }

\* EnhancedImageCache.extractDomain
ScoreDomain(url) == IF url.scheme = "" THEN "invalid" ELSE url.host

\* domainScores[domain] || 50
DomainScore(domain) ==
  CASE domain = "m.media-amazon.com" -> 95
    [] domain = "covers.openlibrary.org" -> 85
    [] domain = "images-na.ssl-images-amazon.com" -> 30
    [] domain = "d2arxad8u2l0g7.cloudfront.net" -> 25
    [] domain = "books.google.com" -> 40
    [] OTHER -> 50

\* the penalties both score functions apply
Penalties(url) ==
  (IF "compressed.photo.goodreads.com" \in url.names THEN 20 ELSE 0)
  + (IF "ssl-images-amazon.com" \in url.names THEN 30 ELSE 0)
  + (IF url.scheme # "https" THEN 10 ELSE 0)

\* the bonuses of EnhancedImageCache.getReliabilityScore
Bonuses(url) ==
  (IF url.ext \in {"jpg", "png"} THEN 5 ELSE 0) + (IF ~url.long THEN 5 ELSE 0)

ScoreMax == 100

\* Clamp without the upper and lower limits: the variant C20 is checked
\* against
Unclamped(score) == score

\* Math.max(0, Math.min(100, score))
Clamp(score) ==
  IF score > ScoreMax THEN ScoreMax ELSE IF score < 0 THEN 0 ELSE score

\* EnhancedImageCache.getReliabilityScore, before the clamp
RawScore(url) == DomainScore(ScoreDomain(url)) - Penalties(url) + Bonuses(url)

\* EnhancedImageCache.getReliabilityScore
getReliabilityScore(url) == Clamp(RawScore(url))

\* TestImageCache.getReliabilityScore (test-image-fixes.js): no bonuses, and
\* 0 for a URL that cannot be parsed
TestGetReliabilityScore(url) ==
  IF url.scheme = "" THEN 0
  ELSE Clamp(DomainScore(url.host) - Penalties(url))

\* a score function is about to be called with one of the URLs
InitScore ==
  /\ InitImageCache
  /\ ~apiEnabled
  /\ probe \in {[NoProbe EXCEPT !.fn = "input", !.in = u] : u \in ScoreInputs}
  /\ manager = IdleManager(TRUE)

ApplyGetReliabilityScore ==
  Apply("getReliabilityScore", getReliabilityScore(probe.in), << >>)

ApplyTestGetReliabilityScore ==
  Apply("TestImageCache.getReliabilityScore", TestGetReliabilityScore(probe.in), << >>)

\* ------------------------------------------- books.js and bookLoader.js

\* the variables of the image cache and of the helpers, which the cover
\* services leave alone
cacheVarsOnly ==
  << cache, preloadQueue, failedUrls, lastFailedCleanup, now, images, calls,
     apiEnabled, searchCache, failingBooks, bulk, probe >>

\* the variables the cover services leave alone
cacheVars == << cacheVarsOnly, booksApi, manager >>

\* no user, a student, an admin without and with the permission, and a user
\* record that makes the check throw
Users == {"none", "student", "admin", "uploader", "broken"}

\* hasPermission grants every admin: the variant C22 is checked against
hasPermissionAnyAdmin(u) == u \in {"admin", "uploader"}

\* auth.js hasPermission('upload_covers')
hasPermission(u) == u = "uploader"

\* books.js getEffectiveCoverUrl
getEffectiveCoverUrl(book) ==
  IF book.cover_source = "custom" /\ book.custom_cover_url # 0
  THEN << "custom", book.custom_cover_url >>
  ELSE book.cover_url

\* the auth state changes
SetUser(u) ==
  /\ user # u
  /\ user' = u
  /\ UNCHANGED << cacheVars, firestore, storage, uploaded, lastOp, loaded >>

\* books.js updateBookCover(bookId, imageFile, adminId); fails are the
\* requests that fail (upload: validation, compression or the upload)
updateBookCover(b, fails) ==
  LET permitted == hasPermission(user)
      doc == firestore[b]
      bookData == IF doc.exists THEN doc
                  ELSE [NoDoc EXCEPT !.exists = TRUE, !.cover_source = "api"]
      old == bookData.custom_cover_url
      deleted == old # 0 /\ old \in storage /\ "delete" \notin fails
      kept == IF deleted THEN storage \ {old} ELSE storage
      newCoverUrl == uploaded + 1
      tried == IF old # 0 THEN {"delete"} ELSE {}
      op == [kind |-> "update", book |-> b, permitted |-> permitted,
             outcome |-> "thrown", url |-> 0, effects |-> {}]
  IN /\ uploaded < MaxUploads
     /\ IF ~permitted \/ "getDoc" \in fails
        THEN /\ lastOp' = op
             /\ UNCHANGED << firestore, storage, uploaded >>
        ELSE IF "upload" \in fails
        THEN /\ lastOp' = [op EXCEPT !.effects = tried \cup {"upload"}]
             /\ storage' = kept
             /\ UNCHANGED << firestore, uploaded >>
        ELSE IF "setDoc" \in fails
        THEN /\ lastOp' = [op EXCEPT !.effects = tried \cup {"upload", "write"}]
             /\ storage' = kept \cup {newCoverUrl}
             /\ uploaded' = newCoverUrl
             /\ UNCHANGED firestore
        ELSE /\ lastOp' = [op EXCEPT !.outcome = "ok", !.url = newCoverUrl,
                                     !.effects = tried \cup {"upload", "write"}]
             /\ storage' = kept \cup {newCoverUrl}
             /\ uploaded' = newCoverUrl
             /\ firestore' = [firestore EXCEPT ![b] =
                  [bookData EXCEPT !.custom_cover_url = newCoverUrl,
                                   !.cover_source = "custom"]]
     /\ UNCHANGED << cacheVars, user, loaded >>

\* books.js revertBookCover(bookId, adminId)
revertBookCover(b, fails) ==
  LET permitted == hasPermission(user)
      doc == firestore[b]
      old == doc.custom_cover_url
      deleted == old # 0 /\ old \in storage /\ "delete" \notin fails
      kept == IF deleted THEN storage \ {old} ELSE storage
      tried == IF old # 0 THEN {"delete"} ELSE {}
      op == [kind |-> "revert", book |-> b, permitted |-> permitted,
             outcome |-> "thrown", url |-> 0, effects |-> {}]
  IN /\ IF ~permitted \/ "getDoc" \in fails
        THEN /\ lastOp' = op
             /\ UNCHANGED << firestore, storage >>
        ELSE IF ~doc.exists
        THEN /\ lastOp' = [op EXCEPT !.outcome = "ok"]
             /\ UNCHANGED << firestore, storage >>
        ELSE IF "setDoc" \in fails
        THEN /\ lastOp' = [op EXCEPT !.effects = tried \cup {"write"}]
             /\ storage' = kept
             /\ UNCHANGED firestore
        ELSE /\ lastOp' = [op EXCEPT !.outcome = "ok",
                                     !.effects = tried \cup {"write"}]
             /\ storage' = kept
             /\ firestore' = [firestore EXCEPT ![b] =
                  [doc EXCEPT !.custom_cover_url = 0, !.cover_source = "api"]]
     /\ UNCHANGED << cacheVars, uploaded, user, loaded >>

\* bookLoader.js applyEffectiveCovers, for the fields the covers depend on
applyEffectiveCovers(books) ==
  { [id |-> b, title |-> books[b].title, cover_url |-> books[b].cover_url,
     effectiveCoverUrl |-> getEffectiveCoverUrl(books[b])] : b \in DOMAIN books }

\* batch.set(bookRef, bookWithSchool, { merge: true }) of
\* saveBooksToFirestore: the fields written replace those of the document,
\* the other fields of the document stay
SavedDoc(doc, book) ==
  [book EXCEPT !.custom_cover_url = doc.custom_cover_url,
               !.cover_source = IF book.cover_source # ""
                                THEN book.cover_source ELSE "api"]

\* bookLoader.js loadBooksWithCustomCovers(); fails are the requests that
\* fail (getDocs of loadBooksFromFirestore, commit of saveBooksToFirestore)
loadBooksWithCustomCovers(fails) ==
  LET found == IF "getDocs" \in fails THEN {}
               ELSE {b \in AdminBookIds : firestore[b].exists}
      staticBooks == [b \in AdminBookIds |-> StaticBook(b)]
      op == [NoOp EXCEPT !.kind = "load", !.outcome = "ok"]
  IN /\ IF found # {}
        THEN /\ loaded' = applyEffectiveCovers([b \in found |-> firestore[b]])
             /\ lastOp' = op
             /\ UNCHANGED firestore
        ELSE /\ loaded' = applyEffectiveCovers(staticBooks)
             /\ lastOp' = [op EXCEPT !.effects = {"write"}]
             /\ firestore' =
                  IF "commit" \in fails THEN firestore
                  ELSE [b \in AdminBookIds |-> SavedDoc(firestore[b], staticBooks[b])]
     /\ UNCHANGED << cacheVars, storage, uploaded, user >>

\* ------------------------------------------------------- GoogleBooksAPI

\* getBookByISBN or searchBooks (fn) of an uncached key is called: rateLimit
\* up to its await, and without a wait the request
ApiCall(c, fn) ==
  LET since == booksApi.clock - booksApi.lastRequestTime
  IN /\ booksApi.calls[c].pc # "wait"
     /\ Len(booksApi.requests) < MaxRequests
     /\ booksApi' =
          IF since < rateLimitDelay
          THEN [booksApi EXCEPT
                  !.calls[c] = [pc |-> "wait",
                                wake |-> booksApi.clock + (rateLimitDelay - since)]]
          ELSE [booksApi EXCEPT
                  !.lastRequestTime = booksApi.clock,
                  !.requests = Append(@, [fn |-> fn, at |-> booksApi.clock]),
                  !.calls[c] = [pc |-> fn, wake |-> 0]]
     /\ UNCHANGED << cacheVarsOnly, adminVars, manager >>

\* the timer of rateLimit fires, at its time or later: lastRequestTime is
\* set and the request is sent
ApiWake(c, fn) ==
  /\ booksApi.calls[c].pc = "wait"
  /\ booksApi.clock >= booksApi.calls[c].wake
  /\ booksApi' = [booksApi EXCEPT
       !.lastRequestTime = booksApi.clock,
       !.requests = Append(@, [fn |-> fn, at |-> booksApi.clock]),
       !.calls[c] = [pc |-> fn, wake |-> 0]]
  /\ UNCHANGED << cacheVarsOnly, adminVars, manager >>

\* 50 ms pass
ApiTick ==
  /\ booksApi.clock < MaxClock
  /\ booksApi' = [booksApi EXCEPT !.clock = @ + 1]
  /\ UNCHANGED << cacheVarsOnly, adminVars, manager >>

\* -------------------------------------------------- EnhancedBooksManager

\* if (this.loading) of getEnhancedBooks, never true: the variant C29 is
\* checked against
NeverLoading(m) == FALSE

\* if (this.loading) of getEnhancedBooks
Loading(m) == m.loading

\* getEnhancedBooks(forceRefresh), up to its return or its await
getEnhancedBooks(c, forceRefresh) ==
  LET cached == manager.enhancedBooks /\ ~forceRefresh /\ manager.fresh
      call == [pc |-> "returned", result |-> "", forceRefresh |-> forceRefresh,
               duringRun |-> manager.runs > 0,
               wasFresh |-> manager.enhancedBooks /\ manager.fresh,
               startedRun |-> FALSE]
  IN /\ manager.calls[c].pc # "running"
     /\ manager' =
          IF cached
          THEN [manager EXCEPT !.calls[c] = [call EXCEPT !.result = "enhanced"]]
          ELSE IF Loading(manager)
          THEN [manager EXCEPT !.calls[c] = [call EXCEPT !.result = "fallback"]]
          ELSE IF ~manager.hasApiKey
          THEN [manager EXCEPT
                  !.loading = FALSE,
                  !.calls[c] = [call EXCEPT !.result = "fallback",
                                            !.startedRun = TRUE]]
          ELSE [manager EXCEPT
                  !.loading = TRUE,
                  !.runs = @ + 1,
                  !.calls[c] = [call EXCEPT !.pc = "running",
                                            !.startedRun = TRUE]]
     /\ UNCHANGED << cacheVarsOnly, adminVars, booksApi >>

\* getBooksFromLibrary resolves (ok) or rejects: the rest of getEnhancedBooks
RunEnds(c, ok) ==
  /\ manager.calls[c].pc = "running"
  /\ manager' =
       [manager EXCEPT
          !.enhancedBooks = @ \/ ok,
          !.fresh = IF ok THEN TRUE ELSE @,
          !.loading = FALSE,
          !.runs = @ - 1,
          !.calls[c].pc = "returned",
          !.calls[c].result = IF ok THEN "enhanced" ELSE "fallback"]
  /\ UNCHANGED << cacheVarsOnly, adminVars, booksApi >>

\* five minutes have passed since lastFetch
CacheExpires ==
  /\ manager.fresh
  /\ manager' = [manager EXCEPT !.fresh = FALSE]
  /\ UNCHANGED << cacheVarsOnly, adminVars, booksApi >>

\* ------------------------------------------------------- imageDebugger.js

\* the books recordFailingBook is called for, by title and author, and the
\* URLs reported as attempted
SinkTitles == {"A", "B"}
SinkAuthors == {"X", "Y"}
SinkUrls == { << >>, << CdnA >> }

\* the duplicate check comparing titles only: the variant C30 is checked
\* against
ExistsByTitle(list, title, author) ==
  \E i \in DOMAIN list : list[i].title = title

\* this.failingBooks.some(existing => existing.title === book.title &&
\* existing.author === book.author)
Exists(list, title, author) ==
  \E i \in DOMAIN list : list[i].title = title /\ list[i].author = author

\* ImageDebugger.recordFailingBook(book, attemptedUrls); probe keeps the call
recordFailingBook(title, author, attemptedUrls) ==
  /\ failingBooks' =
       IF Exists(failingBooks, title, author) THEN failingBooks
       ELSE Append(failingBooks,
                   [title |-> title, author |-> author,
                    attemptedUrls |-> attemptedUrls])
  /\ probe' = [fn |-> "recordFailingBook", in |-> << title, author >>,
               out |-> NoIsbn, urls |-> attemptedUrls]
  /\ UNCHANGED << cache, preloadQueue, failedUrls, lastFailedCleanup, now,
                  images, calls, apiEnabled, searchCache, bulk, adminVars,
                  booksApi, manager >>

\* --------------------------------------------------------- specifications

\* no call is in progress
Alone == \A c \in CallIds : calls[c].pc \in {"idle", "done", "thrown"}

\* Callers that resolve one cover at a time, for any item of the catalog,
\* with and without bookData; the failed set is reset at any moment.
Next ==
  \/ \E c \in CallIds, b \in BookIds, h \in BOOLEAN : Alone /\ StartCall(c, b, h)
  \/ \E c \in CallIds : LoopStep(c)
  \/ \E c \in CallIds, hit \in SearchHits : Search(c, hit)
  \/ \E c \in CallIds : RetryDelay(c)
  \/ \E k \in DOMAIN images : ImageTimeout(k)
  \/ \E k \in DOMAIN images, d \in Dims : ImageOnLoad(k, d[1], d[2])
  \/ \E k \in DOMAIN images : ImageOnError(k)
  \/ resetFailedUrls

Spec == Init /\ [][Next]_vars

\* the application runs without the API keys of the image search
InitDisabled == Init /\ ~apiEnabled

\* the item whose covers several callers preload together: the one with a
\* cover and a fallback
SharedBook == CHOOSE b \in BookIds : Books[b].fallback_urls # << >>

\* Callers that preload the covers of the same item at the same time
\* (preloadVisibleBooks and the grid's preload effect pass no bookData, so
\* the image search is never reached: it is left disabled).
NextConcurrent ==
  \/ \E c \in CallIds : StartCall(c, SharedBook, FALSE)
  \/ \E c \in CallIds : LoopStep(c)
  \/ \E c \in CallIds : PollTick(c)
  \/ \E k \in DOMAIN images : ImageTimeout(k)
  \/ \E k \in DOMAIN images, d \in Dims : ImageOnLoad(k, d[1], d[2])
  \/ \E k \in DOMAIN images : ImageOnError(k)
  \/ resetFailedUrls

SpecConcurrent == InitDisabled /\ [][NextConcurrent]_vars

\* Image k fires its load event, its error event or its timeout.
ImageSettles(k) ==
  /\ k \in DOMAIN images
  /\ \/ ImageTimeout(k)
     \/ \E d \in Dims : ImageOnLoad(k, d[1], d[2])
     \/ ImageOnError(k)

\* The concurrent callers under the scheduling of the event loop: code that
\* can continue does, the 10 ms interval of a waiting caller keeps firing and
\* every started image load fires one of its events.  Nothing obliges a
\* caller to start a call, nor anybody to call resetFailedUrls.
SpecLive ==
  /\ SpecConcurrent
  /\ \A c \in CallIds : WF_vars(LoopStep(c)) /\ WF_vars(PollTick(c))
  /\ \A k \in 1 .. MaxImages : WF_vars(ImageSettles(k))

\* the URLs preloadImage is called with directly: one on each blocked domain,
\* and an Amazon host that is not blocked
DirectUrls ==
  { Https(h, "/cover", NoIsbn, "jpg") :
      h \in {"images-na.ssl-images-amazon.com", "ssl-images-amazon.com",
              "ecx.images-amazon.com", "d2arxad8u2l0g7.cloudfront.net",
              "m.media-amazon.com"} }

\* Callers of preloadImage itself, at the same time, while failed URLs are
\* reset.
NextPreload ==
  \/ \E c \in CallIds, url \in DirectUrls : preloadImage(c, url)
  \/ \E c \in CallIds : PollTick(c)
  \/ \E k \in DOMAIN images : ImageTimeout(k)
  \/ \E k \in DOMAIN images, d \in Dims : ImageOnLoad(k, d[1], d[2])
  \/ \E k \in DOMAIN images : ImageOnError(k)
  \/ resetFailedUrls

SpecPreload == InitDisabled /\ [][NextPreload]_vars

\* One call at a time for the shared item, with and without bookData, while
\* the clock runs and the interval timer calls cleanup; the image search is
\* disabled and nothing but the timer clears the failed set.
NextClock ==
  \/ \E c \in CallIds, h \in BOOLEAN : Alone /\ StartCall(c, SharedBook, h)
  \/ \E c \in CallIds : LoopStep(c)
  \/ \E c \in CallIds : Search(c, NoUrl)
  \/ \E c \in CallIds : RetryDelay(c)
  \/ \E k \in DOMAIN images : ImageTimeout(k)
  \/ \E k \in DOMAIN images, d \in Dims : ImageOnLoad(k, d[1], d[2])
  \/ \E k \in DOMAIN images : ImageOnError(k)
  \/ cleanup
  \/ Tick

SpecClock == InitDisabled /\ [][NextClock]_vars

\* Bulk preloads of up to MaxBulk items, one operation at a time.
NextBulk ==
  \/ \E n \in 1 .. MaxBulk : batchPreload(n)
  \/ \E n \in 1 .. MaxBulk : preloadVisibleBooks(n)
  \/ \E n \in 1 .. MaxBulk : GridPreload(n)
  \/ \E i \in 1 .. MaxBulk : BulkSettle(i)

SpecBulk == InitDisabled /\ [][NextBulk]_vars

\* The ISBN helpers, each applied to every ISBN of IsbnInputs.
NextIsbn ==
  \/ ApplyCleanISBN
  \/ ApplyRoundTrip
  \/ ApplyRoundTripSearch
  \/ ApplyFixerConvertToISBN10
  \/ ApplyConvertToISBN10
  \/ ApplyConvertISBN

SpecIsbn == InitIsbn /\ [][NextIsbn]_vars

\* The reliability score functions, each applied to every URL of ScoreInputs.
NextScore ==
  \/ ApplyGetReliabilityScore
  \/ ApplyTestGetReliabilityScore

SpecScore == InitScore /\ [][NextScore]_vars

\* An admin page: the auth state changes, covers are updated and reverted
\* and the books are loaded, one operation at a time, any request failing.
NextAdmin ==
  \/ \E u \in Users : SetUser(u)
  \/ \E b \in AdminBookIds, fails \in SUBSET {"getDoc", "delete", "upload", "setDoc"} :
       updateBookCover(b, fails)
  \/ \E b \in AdminBookIds, fails \in SUBSET {"getDoc", "delete", "setDoc"} :
       revertBookCover(b, fails)
  \/ \E fails \in SUBSET {"getDocs", "commit"} : loadBooksWithCustomCovers(fails)

SpecAdmin == InitDisabled /\ [][NextAdmin]_vars

\* Callers of getBookByISBN and searchBooks at the same time, with keys that
\* are not cached.
NextApi ==
  \/ \E c \in CallIds, fn \in {"getBookByISBN", "searchBooks"} : ApiCall(c, fn)
  \/ \E c \in CallIds, fn \in {"getBookByISBN", "searchBooks"} : ApiWake(c, fn)
  \/ ApiTick

SpecApi == InitDisabled /\ [][NextApi]_vars

InitEnhanced ==
  /\ InitImageCache
  /\ ~apiEnabled
  /\ probe = NoProbe
  /\ manager \in {IdleManager(hasApiKey) : hasApiKey \in BOOLEAN}

\* Callers of getEnhancedBooks at the same time, with and without
\* forceRefresh, while runs end and the cached list expires.
NextEnhanced ==
  \/ \E c \in CallIds, forceRefresh \in BOOLEAN : getEnhancedBooks(c, forceRefresh)
  \/ \E c \in CallIds, ok \in BOOLEAN : RunEnds(c, ok)
  \/ CacheExpires

SpecEnhanced == InitEnhanced /\ [][NextEnhanced]_vars

\* Failing books are recorded, in any order and repeatedly.
NextSink ==
  \E title \in SinkTitles, author \in SinkAuthors, attemptedUrls \in SinkUrls :
    recordFailingBook(title, author, attemptedUrls)

SpecSink == InitDisabled /\ [][NextSink]_vars

\* ----------------------------------------------------------------- claims

\* the load attempts call started in the given pass over its candidate list
ListAttempts(call, pass) ==
  {n \in DOMAIN call.attempts :
     call.attempts[n].pass = pass /\ call.attempts[n].phase = "list"}

\* C1: a candidate that failed during the first pass of a call is loaded
\* again during the call's retry pass: a call that returns failure after its
\* retry pass has started a second load attempt for every candidate it
\* attempted in the first pass.
C1_RetryPassReloadsFailed ==
  \A c \in CallIds :
    LET call == calls[c]
    IN (call.pc = "done" /\ call.passes = 2 /\ call.result = NoEntry)
       => \A n \in ListAttempts(call, 1) :
            \E m \in ListAttempts(call, 2) :
              call.attempts[m].i = call.attempts[n].i

\* the first pass of the call over a candidate list that is not empty has
\* ended without a success
FirstPassFailed(call) ==
  /\ CallList(call) # << >>
  /\ \/ call.passes = 2
     \/ call.phase = "search"
     \/ call.pc = "done" /\ call.result = NoEntry

\* C2: a call whose first pass ends without a success waits the delay and
\* makes exactly one retry pass: it returns only after a second pass that
\* followed the delay, and no call makes a third pass.
C2_ExactlyOneRetryPass ==
  \A c \in CallIds :
    LET call == calls[c]
    IN /\ call.passes <= 2
       /\ (call.pc = "done" /\ FirstPassFailed(call))
          => (call.passes = 2 /\ call.waited)

\* what C3 says of call c in every state
C3_OneWinner(c) ==
  LET call == calls[c]
  IN /\ (call.pc = "done" /\ call.winner > 0)
        => /\ call.result # NoEntry
           /\ call.result.url = fixUrl(CallList(call)[call.winner])
           /\ \A n \in ListAttempts(call, call.passes) :
                call.attempts[n].i <= call.winner
     /\ \A k \in DOMAIN images :
          (images[k].owner = c /\ images[k].value # NoEntry)
          => (call.pc = "done" /\ call.result = images[k].value /\ call.img = k)

\* what C3 says of the step by which call c returns
C3_ReturnsCachedEntry(c) ==
  (calls[c].pc # "done" /\ calls'[c].pc = "done" /\ calls'[c].result # NoEntry)
  => calls'[c].result \in cache'

\* C3: a call returns as soon as one candidate loads with valid dimensions.
\* A load that delivered an entry to its call ended the call with that entry
\* as its result and is the last load the call started; a call that returned
\* the entry of candidate number winner started no load, during that pass,
\* for a candidate after it; and the entry returned is in the cache at the
\* moment of the return.
C3_ReturnsAtFirstSuccess ==
  /\ [](\A c \in CallIds : C3_OneWinner(c))
  /\ [][\A c \in CallIds : C3_ReturnsCachedEntry(c)]_vars

\* a call returned the entry of its second candidate, after the first failed,
\* and left untried a later candidate for a URL it had not attempted
C3_Witness ==
  \E c \in CallIds :
    /\ calls[c].pc = "done"
    /\ calls[c].winner = 2
    /\ calls[c].result \in cache
    /\ Len(calls[c].attempts) = 2
    /\ \E j \in DOMAIN CallList(calls[c]) :
         /\ j > 2
         /\ \A n \in DOMAIN calls[c].attempts :
              calls[c].attempts[n].url # fixUrl(CallList(calls[c])[j])

\* C4: concurrent calls for the same item coalesce.  No two loads of the
\* same URL are in flight together, and a caller that found a URL in flight
\* and awaited it resolved with the outcome the in-flight load delivered.
C4_Coalesce ==
  /\ \A k, m \in DOMAIN images :
       (images[k].state = "pending" /\ images[m].state = "pending"
        /\ images[k].url = images[m].url) => k = m
  /\ \A c \in CallIds :
       calls[c].polled # 0
       => calls[c].pollValue = images[calls[c].polled].value

\* C5: a load event that arrives for an attempt whose timeout has fired does
\* not overwrite the failed state: the step leaves the cache as it was and a
\* URL marked failed stays marked failed.
C5_LateLoadKeepsFailure ==
  [][\A k \in DOMAIN images :
       (images[k].state = "timedout" /\ images'[k].state = "late"
        /\ images'[k].width > 0)
       => /\ cache' = cache
          /\ images[k].url \in failedUrls => images[k].url \in failedUrls']_vars

\* the reliability score of the candidate a load attempt was started for
AttemptScore(call, n) == getUrlReliability(CallList(call)[call.attempts[n].i])

\* C6: within one call candidates are attempted in the order of their
\* scores: of two load attempts of the same pass, the later one is never for
\* a candidate with a higher score than the earlier one's (a candidate
\* skipped as failed is not attempted in that pass at all).
C6_AttemptsFollowScore ==
  \A c \in CallIds :
    \A n, m \in DOMAIN calls[c].attempts :
      LET call == calls[c]
      IN (n < m /\ call.attempts[n].pass = call.attempts[m].pass
          /\ call.attempts[n].phase = "list" /\ call.attempts[m].phase = "list")
         => AttemptScore(call, n) >= AttemptScore(call, m)

\* C7: no load attempt is started for a URL of the failed set, and none
\* during a first pass for a candidate of the failed set; and while the
\* failed set is empty, as it is once cleared, a call in its first pass that
\* reaches a candidate neither cached nor in flight starts a load attempt
\* for it.
C7_FailedSkippedUntilCleared ==
  [][/\ Len(images') > Len(images)
        => LET new == images'[Len(images')]
           IN /\ new.url \notin failedUrls
              /\ (calls'[new.owner].retryCount = 0
                  /\ calls'[new.owner].phase = "list")
                 => new.originalUrl \notin failedUrls
     /\ \A c \in CallIds :
          LET call == calls[c]
              list == CallList(call)
              fixedUrl == fixUrl(list[call.i])
          IN (/\ call.pc = "loop" /\ calls'[c] # call
              /\ call.retryCount = 0 /\ call.i <= Len(list)
              /\ failedUrls = {}
              /\ ~CacheHas(cache, fixedUrl)
              /\ fixedUrl \notin preloadQueue)
             => /\ calls'[c].pc = "load"
                /\ Len(images') = Len(images) + 1
                /\ images'[Len(images')].url = fixedUrl]_vars

\* a URL failed for one call, the interval timer cleared the failed set, and
\* a later call, in its first pass, is loading the same URL again
C7_Witness ==
  \E k, m \in DOMAIN images :
    /\ k < m
    /\ images[k].url = images[m].url
    /\ images[k].state \in {"error", "timedout"}
    /\ images[m].state = "pending"
    /\ images[m].owner # images[k].owner
    /\ calls[images[m].owner].retryCount = 0
    /\ calls[images[m].owner].phase = "list"

\* Image k has just loaded, in time, with at most 10 pixels in some axis
C8_TinyLoad(k) ==
  /\ images[k].state = "pending"
  /\ images'[k].state = "loaded"
  /\ (images'[k].width <= 10 \/ images'[k].height <= 10)

HasIdentifier(book) == book.isbn # NoIsbn \/ book.cover_url # NoUrl

\* C9: a call for an item with neither an ISBN nor a primary image URL
\* returns failure at once: it starts no image load, makes no search request
\* and does not wait for a retry.
C9_NoIdentifierShortCircuits ==
  \A c \in CallIds :
    LET call == calls[c]
    IN (call.pc # "idle" /\ ~HasIdentifier(Books[call.book]))
       => /\ call.attempts = << >>
          /\ ~call.searched
          /\ ~call.waited
          /\ call.result = NoEntry

\* C10: the candidate list handed to the loop of a call is not empty when the
\* item of the call has an ISBN or a primary image URL.
C10_CandidatesWhenIdentified ==
  \A c \in CallIds :
    (calls[c].pc # "idle" /\ HasIdentifier(Books[calls[c].book]))
    => CallList(calls[c]) # << >>

\* no element of the sequence occurs in it twice
NoDuplicates(s) == \A i, j \in DOMAIN s : s[i] = s[j] => i = j

\* C11: the candidate list attempted in one pass of a call is deduplicated:
\* after the generated candidates are merged with the supplied ones, no URL
\* occurs in the list more than once.
C11_CandidateListDeduplicated ==
  \A c \in CallIds :
    calls[c].pc # "idle" => NoDuplicates(CallList(calls[c]))

\* C12: a call never ends with a thrown exception or a rejected promise:
\* every error is absorbed inside the call, and exhaustion of the candidates
\* is delivered as the result null.
C12_CallNeverThrows ==
  \A c \in CallIds : calls[c].pc # "thrown"

\* the diagnostic sink holds a record of the item of the call with the list
\* the call attempted
Reported(call) ==
  \E n \in DOMAIN failingBooks :
    /\ failingBooks[n].book = call.book
    /\ failingBooks[n].attemptedUrls = CallList(call)

\* the call has returned failure after its retry pass
FailedAfterRetry(call) ==
  call.pc = "done" /\ call.result = NoEntry /\ call.passes = 2

\* C13: a call whose retry pass is also exhausted without success returns
\* failure and has reported its item to the diagnostic sink with the list of
\* attempted URLs; the sink holds no record of an item for which no call has
\* failed after its retry pass.
C13_FailureReportedToSink ==
  /\ \A c \in CallIds : FailedAfterRetry(calls[c]) => Reported(calls[c])
  /\ \A n \in DOMAIN failingBooks :
       \E c \in CallIds :
         FailedAfterRetry(calls[c]) /\ calls[c].book = failingBooks[n].book

\* C14: bulk preload operations (batchPreload, preloadVisibleBooks and the
\* preload effect of the grid) keep the loads in flight on their behalf
\* within the concurrency window: at no moment are more than 6 in flight.
C14_BulkWithinWindow ==
  Cardinality(bulk.inFlight) <= MaxConcurrent

\* C15: the failed set is cleared every ten minutes: every call of cleanup by
\* its ten-minute interval timer leaves the failed set empty, so that no URL
\* stays failed across a tick of the timer.
C15_EveryCleanupClearsFailed ==
  [][cleanup => failedUrls' = {}]_vars

\* C16: after cleanup(maxAge) has run at time now the cache holds no entry
\* with now - timestamp > maxAge, and every entry with now - timestamp <=
\* maxAge is still present and unchanged.
C16_CleanupSweepsByAge ==
  [][cleanup =>
       /\ \A e \in cache' : now - e.timestamp <= MaxAge
       /\ \A e \in cache : now - e.timestamp <= MaxAge => e \in cache'
       /\ cache' \subseteq cache]_vars

\* cleanup has removed the entry of an image loaded more than maxAge ago and
\* has kept an entry whose age is exactly maxAge
C16_Witness ==
  /\ \E k \in DOMAIN images :
       /\ images[k].state = "loaded"
       /\ images[k].value # NoEntry
       /\ now - images[k].value.timestamp > MaxAge
       /\ ~CacheHas(cache, images[k].url)
  /\ \E e \in cache : e.timestamp < now /\ now - e.timestamp = MaxAge
  /\ lastFailedCleanup = now

\* the check character recomputed from the characters before the last one of
\* a string of 10 or 13 characters
CheckChar(s) ==
  IF Len(s) = 13
  THEN LET sum == WeightedSum(Slice(s, 0, 12), Weights13, 1)
       IN NumText(IF sum = NaN THEN NaN ELSE (10 - (sum % 10)) % 10)
  ELSE Check10(Slice(s, 0, 9))

\* the last character of the string is its recomputed check character
CheckCharMatches(s) == << s[Len(s)] >> = CheckChar(s)

\* C17: cleanISBN rejects every string of 10 or 13 characters whose last
\* character is not the check digit recomputed from the characters before
\* it, and such a string yields no candidate URLs.
C17_CleanIsbnChecksDigit ==
  (/\ probe.fn = "cleanISBN"
   /\ Len(probe.in) \in {10, 13}
   /\ ~CheckCharMatches(probe.in))
  => (probe.out = NoIsbn /\ probe.urls = << >>)

\* a valid ISBN-13 that starts with 978: 13 digits, the last one the check
\* digit of the twelve before it
ValidIsbn13With978(x) ==
  /\ Len(x) = 13
  /\ \A i \in DOMAIN x : x[i] \in 0 .. 9
  /\ StartsWith978(x)
  /\ CheckCharMatches(x)

\* C18: for every valid ISBN-13 x that starts with 978, converting x to
\* ISBN-10, back to ISBN-13 and again to ISBN-10 gives the ISBN-10 of x, with
\* the conversions of reliableImageSources and with convertISBN of the image
\* search.
C18_RoundTripIdempotent ==
  ValidIsbn13With978(probe.in)
  => /\ probe.fn = "roundTrip"
        => (probe.out = convertToISBN10(probe.in) /\ probe.out # NoIsbn)
     /\ probe.fn = "roundTripSearch"
        => (probe.out = convertISBN(probe.in) /\ probe.out # NoIsbn)

\* the round trip made for a valid ISBN-13 whose ISBN-10 ends in X and whose
\* ISBN-13 form is the input again
C18_Witness ==
  /\ probe.fn = "roundTrip"
  /\ ValidIsbn13With978(probe.in)
  /\ Len(probe.out) = 10
  /\ probe.out[10] = CharX
  /\ convertToISBN13(probe.out) = probe.in

\* the string is 13 digits
Is13Digits(x) == Len(x) = 13 /\ \A i \in DOMAIN x : x[i] \in 0 .. 9

\* sum of the nine digits times the weights 10 down to 2
Mod11Sum(d) ==
  10 * d[1] + 9 * d[2] + 8 * d[3] + 7 * d[4] + 6 * d[5] + 5 * d[6]
  + 4 * d[7] + 3 * d[8] + 2 * d[9]

\* the ISBN-10 of 13 digits with prefix 978: the nine digits after the
\* prefix and the check character that brings the weighted sum to a multiple
\* of 11, X for the check value 10
ExpectedIsbn10(x) ==
  LET d == SubSeq(x, 4, 12)
      check == CHOOSE c \in 0 .. 10 : (Mod11Sum(d) + c) % 11 = 0
  IN d \o << check >>

\* the ISBN-13 to ISBN-10 conversions
ToIsbn10Functions == {"urlFixer.convertToISBN10", "convertToISBN10", "convertISBN"}

\* C19: for an input of 13 digits, toIsbn10 returns a value only when the
\* input starts with 978 and null otherwise; the value is the nine digits
\* after the prefix followed by the modulus-11 check digit for the weights 10
\* down to 2, the check value 10 written as X.
C19_ToIsbn10 ==
  (probe.fn \in ToIsbn10Functions /\ Is13Digits(probe.in))
  => IF StartsWith978(probe.in)
     THEN probe.out = ExpectedIsbn10(probe.in)
     ELSE probe.out = NoIsbn

\* urlFixer.convertToISBN10 has converted 13 digits with prefix 978 to an
\* ISBN-10 that ends in X
C19_Witness ==
  /\ probe.fn = "urlFixer.convertToISBN10"
  /\ Is13Digits(probe.in)
  /\ StartsWith978(probe.in)
  /\ Len(probe.out) = 10
  /\ probe.out[10] = CharX

\* the functions that compute a reliability score
ScoreFunctions == {"getReliabilityScore", "TestImageCache.getReliabilityScore"}

\* C20: the reliability score of every URL lies in [0, 100], also for a URL
\* that cannot be parsed and for a URL to which several penalties or several
\* bonuses apply at once.
C20_ScoreWithinRange ==
  probe.fn \in ScoreFunctions => (0 <= probe.out /\ probe.out <= ScoreMax)

\* a URL with all three penalties, whose score before the clamp is negative,
\* has been scored 0
C20_Witness ==
  /\ probe.fn = "getReliabilityScore"
  /\ Penalties(probe.in) = 60
  /\ RawScore(probe.in) < 0
  /\ probe.out = 0

\* C21: in each pass of a call at most 8 candidates are attempted, and every
\* candidate attempted from the list satisfies validateImageUrl.
C21_AtMostEightValidCandidates ==
  \A c \in CallIds :
    LET call == calls[c]
        list == CallList(call)
    IN call.pc \notin {"idle", "thrown"}
       => /\ Len(list) <= MaxCandidates
          /\ \A pass \in 1 .. call.passes :
               Cardinality(ListAttempts(call, pass)) <= MaxCandidates
          /\ \A n \in DOMAIN call.attempts :
               call.attempts[n].phase = "list"
               => /\ call.attempts[n].i \in DOMAIN list
                  /\ validateImageUrl(list[call.attempts[n].i])

\* a call for the item with an ISBN, whose list was cut to 8 candidates, has
\* attempted three of them in its first pass
C21_Witness ==
  \E c \in CallIds :
    /\ calls[c].hasBook
    /\ Books[calls[c].book].isbn # NoIsbn
    /\ Len(CallList(calls[c])) = MaxCandidates
    /\ Cardinality(ListAttempts(calls[c], 1)) = MaxImages

\* a cover operation of the admin page takes a step
CoverCall ==
  \E b \in AdminBookIds, fails \in SUBSET {"getDoc", "delete", "upload", "setDoc"} :
    updateBookCover(b, fails) \/ revertBookCover(b, fails)

\* C22: updateBookCover and revertBookCover called without the upload_covers
\* permission (no user, a non-admin, an admin without the permission, a failing
\* check) throw and make no storage upload, no storage delete and no Firestore
\* write.
C22_NoPermissionNoEffect ==
  [][CoverCall /\ user # "uploader"
     => /\ lastOp'.outcome = "thrown"
        /\ lastOp'.effects = {}
        /\ UNCHANGED << firestore, storage, uploaded >>]_vars

\* an admin without the permission has called updateBookCover for a book that
\* holds a custom cover
C22_Witness ==
  /\ user = "admin"
  /\ lastOp.kind = "update"
  /\ ~lastOp.permitted
  /\ lastOp.outcome = "thrown"
  /\ firestore[lastOp.book].custom_cover_url \in storage

\* C23: after a successful updateBookCover the effective cover URL of the book
\* is the newly uploaded custom URL, and after a successful revertBookCover it
\* is the original API cover_url of the book again.
C23_CustomCoverPriority ==
  LET b == lastOp.book
      book == IF firestore[b].exists THEN firestore[b] ELSE StaticBook(b)
  IN lastOp.outcome = "ok"
     => /\ lastOp.kind = "update"
           => getEffectiveCoverUrl(book) = << "custom", lastOp.url >>
        /\ lastOp.kind = "revert"
           => getEffectiveCoverUrl(book) = StaticBook(b).cover_url

\* C24: the result of loadBooksWithCustomCovers holds every book of the static
\* catalog with its original fields, with the custom cover of its Firestore
\* document, when it has one, as the effective cover.
C24_LoadMergesStaticAndFirestore ==
  lastOp.kind = "load"
  => \A b \in AdminBookIds :
       \E book \in loaded :
         /\ book.id = b
         /\ book.title = StaticBook(b).title
         /\ book.cover_url = StaticBook(b).cover_url
         /\ book.effectiveCoverUrl =
              IF firestore[b].cover_source = "custom" /\ firestore[b].custom_cover_url # 0
              THEN << "custom", firestore[b].custom_cover_url >>
              ELSE StaticBook(b).cover_url

\* C26: a non-empty custom_cover_url stored in a book document refers to a
\* cover that was uploaded and has not been deleted from storage.
C26_StoredCoverExists ==
  \A b \in AdminBookIds :
    firestore[b].custom_cover_url # 0
    => /\ firestore[b].custom_cover_url \in 1 .. uploaded
       /\ firestore[b].custom_cover_url \in storage

\* C25: every preloadImage call eventually resolves, the caller that started
\* the load as well as the caller that found the URL in flight and polls.
C25_PreloadEventuallyResolves ==
  \A c \in CallIds :
    (calls[c].pc \in {"load", "poll"}) ~> (calls[c].pc \notin {"load", "poll"})

\* the domains C27 names
BlockedDomains ==
  {"images-na.ssl-images-amazon.com", "ssl-images-amazon.com",
   "ecx.images-amazon.com", "d2arxad8u2l0g7.cloudfront.net"}

ContainsBlockedDomain(url) ==
  url # NoUrl /\ \E domain \in BlockedDomains : UrlIncludes(url, domain)

\* C27: no load is ever started for a URL that contains a blocked domain, and
\* preloadImage on such a URL returns null and leaves the result cache, the
\* failed-URL set and the in-flight set unchanged.
C27_BlockedUrlNeverLoaded ==
  [][/\ \A k \in DOMAIN images' :
          /\ ~ContainsBlockedDomain(images'[k].originalUrl)
          /\ ~ContainsBlockedDomain(images'[k].url)
     /\ \A c \in CallIds, url \in DirectUrls :
          preloadImage(c, url) /\ ContainsBlockedDomain(url)
          => /\ calls'[c].pc = "done"
             /\ calls'[c].result = NoEntry
             /\ UNCHANGED << cache, failedUrls, preloadQueue, images >>]_vars

\* preloadImage has returned null for a blocked URL while another load is in
\* flight
C27_Witness ==
  \E c \in CallIds :
    /\ calls[c].phase = "direct"
    /\ calls[c].pc = "done"
    /\ calls[c].url = NoUrl
    /\ calls[c].result = NoEntry
    /\ preloadQueue # {}

\* C28: any two requests sent to the Google Books API are at least
\* rateLimitDelay apart, also when getBookByISBN and searchBooks are called
\* concurrently.
C28_RequestsSpaced ==
  \A i, j \in DOMAIN booksApi.requests :
    i < j => booksApi.requests[j].at - booksApi.requests[i].at >= rateLimitDelay

\* C29 as stated: at most one enhancement run is in progress, a call made
\* while a run is in progress returns the fallback list and starts no run, and
\* loading is false when no run is in progress.
C29_CallDuringRunReturnsFallback ==
  /\ manager.runs <= 1
  /\ manager.loading <=> manager.runs = 1
  /\ \A c \in CallIds :
       manager.calls[c].duringRun
       => /\ manager.calls[c].pc = "returned"
          /\ ~manager.calls[c].startedRun
          /\ manager.calls[c].result = "fallback"

\* C29: at most one enhancement run is in progress; a call made while a run
\* is in progress starts no run and returns the fallback list, unless the
\* cached list is fresh and the call does not force a refresh: then it returns
\* the cached list; loading is false when no run is in progress.
C29_OneRunAtATime ==
  /\ manager.runs <= 1
  /\ manager.loading <=> manager.runs = 1
  /\ \A c \in CallIds :
       manager.calls[c].duringRun
       => /\ manager.calls[c].pc = "returned"
          /\ ~manager.calls[c].startedRun
          /\ manager.calls[c].result =
               IF manager.calls[c].wasFresh /\ ~manager.calls[c].forceRefresh
               THEN "enhanced" ELSE "fallback"

\* a call made during a run has returned the fallback list, and the run has
\* ended with an error
C29_Witness ==
  \E c, d \in CallIds :
    /\ manager.calls[c].duringRun
    /\ manager.calls[c].result = "fallback"
    /\ manager.calls[d].startedRun
    /\ manager.calls[d].pc = "returned"
    /\ manager.calls[d].result = "fallback"
    /\ manager.hasApiKey
    /\ ~manager.loading

\* the records of list for the pair (title, author)
RecordsOf(list, pair) ==
  {i \in DOMAIN list : list[i].title = pair[1] /\ list[i].author = pair[2]}

\* C30: failingBooks holds at most one record per (title, author) pair, the
\* first one recorded: a call for a pair not yet in the list appends its
\* record, a call for a pair already in the list leaves the list unchanged.
C30_OneRecordPerBook ==
  [][probe'.fn = "recordFailingBook"
     => /\ \A title \in SinkTitles, author \in SinkAuthors :
             Cardinality(RecordsOf(failingBooks', << title, author >>)) <= 1
        /\ Cardinality(RecordsOf(failingBooks', probe'.in)) = 1
        /\ SubSeq(failingBooks', 1, Len(failingBooks)) = failingBooks
        /\ RecordsOf(failingBooks, probe'.in) # {}
           => failingBooks' = failingBooks]_vars

\* every pair is recorded, and the last call was made for a pair already in
\* the list, with other URLs than those of its record
C30_Witness ==
  /\ Len(failingBooks) = Cardinality(SinkTitles) * Cardinality(SinkAuthors)
  /\ probe.fn = "recordFailingBook"
  /\ \E i \in RecordsOf(failingBooks, probe.in) :
       /\ i < Len(failingBooks)
       /\ failingBooks[i].attemptedUrls # probe.urls

====
